---- MODULE Spec2Model ----
(***************************************************************************)
(* Model of server.js, the booking backend: POST /api/create-checkout-     *)
(* session and POST /api/webhook with the two fulfillment functions        *)
(* createOutlookEvent and sendConfirmationEmail.                           *)
(*                                                                         *)
(* The two routes share no mutable state (server.js keeps no module-level  *)
(* variable that a handler writes), so each route has its own              *)
(* specification: SpecCheckout and SpecWebhook.  An `await` on an external *)
(* call (Stripe, Microsoft Graph) is a suspension point: the handler is    *)
(* one action up to the await and one action for each continuation.        *)
(* zone is the local time zone of the server process, which new Date()     *)
(* reads; it is set by the environment and never changes.                  *)
(***************************************************************************)
EXTENDS Integers, Sequences, FiniteSets, TLC

VARIABLES co, req, zone

vars == <<co, req, zone>>

(***************************************************************************)
(* JavaScript values.  A value is a record whose single field names its    *)
(* type, so that values of different types can be compared.                *)
(***************************************************************************)
Undefined == [undefined |-> TRUE]

Str(s) == [str |-> s]

Num(n) == [num |-> n]

\* a value inherited from Object.prototype (a function, or the prototype)
Inherited(k) == [inherited |-> k]

\* ToBoolean: undefined, "" and 0 are falsy; functions and objects truthy
Truthy(v) ==
    IF "undefined" \in DOMAIN v THEN FALSE
    ELSE IF "str" \in DOMAIN v THEN v.str # ""
    ELSE IF "num" \in DOMAIN v THEN v.num # 0
    ELSE TRUE

\* a || b
Or(a, b) == IF Truthy(a) THEN a ELSE b

\* property names every object literal inherits from Object.prototype
ObjectPrototypeKeys ==
    {"constructor", "toString", "valueOf", "hasOwnProperty", "__proto__"}

\* obj[key] on an object literal whose own properties are the function obj
Lookup(obj, key) ==
    IF ~("str" \in DOMAIN key) THEN Undefined
    ELSE IF key.str \in DOMAIN obj THEN obj[key.str]
    ELSE IF key.str \in ObjectPrototypeKeys THEN Inherited(key.str)
    ELSE Undefined

(***************************************************************************)
(* POST /api/create-checkout-session                                       *)
(***************************************************************************)
servicePrices ==
    [consultation |-> Num(15000), starter |-> Num(150000),
     professional |-> Num(350000), enterprise |-> Num(0)]

serviceNames ==
    [consultation |-> Str("Initial Consultation"),
     starter |-> Str("Starter Package"),
     professional |-> Str("Professional Package"),
     enterprise |-> Str("Enterprise Package")]

\* the request bodies the model submits: every required field present or
\* absent, name also empty, message absent, empty or given
ServiceValues ==
    {Undefined, Str("consultation"), Str("starter"), Str("professional"),
     Str("enterprise"), Str("premium"), Str("constructor"), Str("toString")}

BookingRequests ==
    [name : {Undefined, Str(""), Str("Jane Doe")},
     email : {Undefined, Str("jane@x.com")},
     phone : {Undefined, Str("555-0100")},
     service : ServiceValues,
     date : {Undefined, Str("2025-03-10")},
     time : {Undefined, Str("14:00")},
     message : {Undefined, Str(""), Str("Dashboard project")}]

\* the exceptions stripe.checkout.sessions.create can throw
StripeErrors == {"Invalid API Key provided", "Rate limit exceeded"}

NoResponse == [status |-> 0, body |-> [none |-> TRUE]]

Respond(status, body) == [status |-> status, body |-> body]

MissingFieldsMutant(b) ==
    ~Truthy(b.name) \/ ~Truthy(b.email) \/ ~Truthy(b.phone)
        \/ ~Truthy(b.service) \/ ~Truthy(b.date)

\* line 35: !name || !email || !phone || !service || !date || !time
MissingFields(b) ==
    ~Truthy(b.name) \/ ~Truthy(b.email) \/ ~Truthy(b.phone)
        \/ ~Truthy(b.service) \/ ~Truthy(b.date) \/ ~Truthy(b.time)

IsEnterpriseMutant(service) == FALSE

\* line 53: service === 'enterprise'
IsEnterprise(service) == service = Str("enterprise")

MissingFieldsResponse == Respond(400, [error |-> "Missing required fields"])

InvalidServiceResponse == Respond(400, [error |-> "Invalid service selected"])

EnterpriseResponse ==
    Respond(400, [error |->
        "Enterprise packages require custom quote. Please contact us directly."])

SessionParamsMutant(b, price) ==
    [unit_amount |-> price,
     quantity |-> 1,
     product_name |-> Lookup(serviceNames, b.service),
     description |-> <<b.date, b.time>>,
     mode |-> "payment",
     customer_email |-> b.email,
     metadata |->
        [customerName |-> b.name,
         customerEmail |-> b.email,
         customerPhone |-> b.phone,
         service |-> b.service,
         appointmentDate |-> b.time,
         appointmentTime |-> b.date,
         projectDetails |-> Or(b.message, Str("No details provided"))]]

\* lines 68-96: the argument of stripe.checkout.sessions.create
SessionParams(b, price) ==
    [unit_amount |-> price,
     quantity |-> 1,
     product_name |-> Lookup(serviceNames, b.service),
     description |-> <<b.date, b.time>>,
     mode |-> "payment",
     customer_email |-> b.email,
     metadata |->
        [customerName |-> b.name,
         customerEmail |-> b.email,
         customerPhone |-> b.phone,
         service |-> b.service,
         appointmentDate |-> b.date,
         appointmentTime |-> b.time,
         projectDetails |-> Or(b.message, Str("No details provided"))]]

CheckoutCatchResponseMutant(message) == Respond(500, [error |-> message])

\* lines 100-103: the catch block of the handler
CheckoutCatchResponse(message) ==
    Respond(500, [error |-> "Failed to create checkout session"])

\* line 98
SessionResponse(session) ==
    Respond(200, [sessionId |-> session.id, url |-> session.url])

CoIdle ==
    [pc |-> "idle", body |-> Undefined, stripeCalls |-> <<>>,
     stripeError |-> "", response |-> NoResponse]

\* lines 30-68: the handler from the request to its first await
CreateCheckoutSession(b) ==
    /\ co.pc = "idle"
    /\ LET price == Lookup(servicePrices, b.service)
           received == [co EXCEPT !.body = b]
       IN  co' =
             IF MissingFields(b)
             THEN [received EXCEPT !.pc = "done",
                                   !.response = MissingFieldsResponse]
             ELSE IF price = Undefined
             THEN [received EXCEPT !.pc = "done",
                                   !.response = InvalidServiceResponse]
             ELSE IF IsEnterprise(b.service)
             THEN [received EXCEPT !.pc = "done",
                                   !.response = EnterpriseResponse]
             ELSE [received EXCEPT
                      !.pc = "awaitStripe",
                      !.stripeCalls = Append(@, SessionParams(b, price))]
    /\ UNCHANGED <<req, zone>>

\* line 68 resolves, line 98
StripeSessionCreated ==
    /\ co.pc = "awaitStripe"
    /\ \E session \in {[id |-> "cs_test_1", url |-> "https://checkout/cs_test_1"]} :
          co' = [co EXCEPT !.pc = "done",
                           !.response = SessionResponse(session)]
    /\ UNCHANGED <<req, zone>>

\* line 68 rejects, lines 100-103
StripeSessionFailed ==
    /\ co.pc = "awaitStripe"
    /\ \E message \in StripeErrors :
          co' = [co EXCEPT !.pc = "done",
                           !.stripeError = message,
                           !.response = CheckoutCatchResponse(message)]
    /\ UNCHANGED <<req, zone>>

(***************************************************************************)
(* POST /api/webhook: the bytes on the wire and the signature header       *)
(*                                                                         *)
(* A text is a string of bytes.  The model distinguishes the JSON text of  *)
(* an event object, the JSON text of an array holding that text as its     *)
(* single string element, a text that is not JSON, the text                *)
(* "[object Object]" and a text different from all of these.               *)
(***************************************************************************)
CompletedType == "checkout.session.completed"

EventTypes == {CompletedType, "payment_intent.created"}

BookingMetadata ==
    [customerName |-> Str("Jane Doe"),
     customerEmail |-> Str("jane@x.com"),
     customerPhone |-> Str("555-0100"),
     service |-> Str("professional"),
     appointmentDate |-> Str("2025-03-10"),
     appointmentTime |-> Str("14:00"),
     projectDetails |-> Str("No details provided")]

\* a session created without metadata: every key reads as undefined
EmptyMetadata ==
    [customerName |-> Undefined,
     customerEmail |-> Undefined,
     customerPhone |-> Undefined,
     service |-> Undefined,
     appointmentDate |-> Undefined,
     appointmentTime |-> Undefined,
     projectDetails |-> Undefined]

\* event.data.object
Sessions ==
    {[id |-> "cs_1", metadata |-> BookingMetadata],
     [id |-> "cs_2", metadata |-> EmptyMetadata]}

Events == [type : EventTypes, session : Sessions]

ObjectText(e) == [text |-> "object", event |-> e]

ArrayText(e) == [text |-> "arrayOfString", event |-> e]

MalformedText == [text |-> "malformed"]

ObjectObjectText == [text |-> "[object Object]"]

OtherText == [text |-> "other"]

\* JavaScript values a request body can be after the middleware chain
Buffer(t) == [buffer |-> t]

ParsedObject(e) == [object |-> e]

\* an array with one string element
ParsedArray(t) == [array |-> t]

EmptyObject == [emptyObject |-> TRUE]

FormObject == [form |-> TRUE]

SyntaxError == [syntaxError |-> TRUE]

\* JSON.parse of a text
JSONParse(t) ==
    IF t.text = "object" THEN ParsedObject(t.event)
    ELSE IF t.text = "arrayOfString" THEN ParsedArray(ObjectText(t.event))
    ELSE SyntaxError

\* String(v), as a template literal and JSON.parse coerce their argument;
\* a Buffer is decoded by the library before use
StringOf(v) ==
    IF "buffer" \in DOMAIN v THEN v.buffer
    ELSE IF "array" \in DOMAIN v THEN v.array
    ELSE ObjectObjectText

WebhookSecret == "whsec_live"

Secrets == {WebhookSecret, "whsec_wrong"}

JsonType == "application/json"

FormType == "application/x-www-form-urlencoded"

ContentTypes == {JsonType, FormType, "text/plain"}

\* what a sender can sign: the bytes it sends, the text the parsed body
\* coerces to, or other bytes (the body was altered after signing)
SignedTexts(body) ==
    {body, OtherText} \cup
        (IF JSONParse(body) = SyntaxError THEN {}
         ELSE {StringOf(JSONParse(body))})

Bodies ==
    {ObjectText(e) : e \in Events} \cup {ArrayText(e) : e \in Events}
        \cup {MalformedText}

\* the body sent with a content type no JSON parser accepts
PlainBody ==
    ObjectText([type |-> CompletedType,
                session |-> [id |-> "cs_1", metadata |-> BookingMetadata]])

WebhookRequests ==
    {q \in [contentType : {JsonType}, body : Bodies,
            sig : [secret : Secrets,
                   signed : UNION {SignedTexts(b) : b \in Bodies}]] :
        q.sig.signed \in SignedTexts(q.body)}
        \cup
    [contentType : ContentTypes \ {JsonType}, body : {PlainBody},
     sig : [secret : {WebhookSecret},
            signed : {PlainBody, ObjectObjectText}]]

(***************************************************************************)
(* The middleware chain of lines 13-18, in registration order.  A parser   *)
(* that finds the body already parsed (req._body) passes the request on    *)
(* untouched.                                                              *)
(***************************************************************************)
\* req.body and req._body before any parser has run
UnparsedContext == [body |-> EmptyObject, parsed |-> FALSE, error |-> FALSE]

\* line 14
ExpressJson(ctx, q) ==
    IF ctx.parsed \/ ctx.error \/ q.contentType # JsonType THEN ctx
    ELSE IF JSONParse(q.body) = SyntaxError THEN [ctx EXCEPT !.error = TRUE]
    ELSE [ctx EXCEPT !.body = JSONParse(q.body), !.parsed = TRUE]

\* line 15
ExpressUrlencoded(ctx, q) ==
    IF ctx.parsed \/ ctx.error \/ q.contentType # FormType THEN ctx
    ELSE [ctx EXCEPT !.body = FormObject, !.parsed = TRUE]

\* line 18
ExpressRaw(ctx, q) ==
    IF ctx.parsed \/ ctx.error \/ q.contentType # JsonType THEN ctx
    ELSE [ctx EXCEPT !.body = Buffer(q.body), !.parsed = TRUE]

\* lines 14, 15, 18
Middleware(q) ==
    ExpressRaw(ExpressUrlencoded(ExpressJson(UnparsedContext, q), q), q)

(***************************************************************************)
(* stripe.webhooks.constructEvent(payload, header, secret): the library    *)
(* decodes a Buffer, coerces anything else to a string, compares the       *)
(* header with the HMAC of that string under the secret and returns        *)
(* JSON.parse of it.  The header's timestamp is taken to be within the     *)
(* tolerance.                                                              *)
(***************************************************************************)
SignatureError == "No signatures found matching the expected signature for payload"

ParseError == "Unexpected token in JSON"

ConstructEvent(payload, sig, secret) ==
    LET decoded == StringOf(payload)
        parsed == JSONParse(decoded)
    IN  IF sig.secret # secret \/ sig.signed # decoded
        THEN [ok |-> FALSE, message |-> SignatureError]
        ELSE IF parsed = SyntaxError
        THEN [ok |-> FALSE, message |-> ParseError]
        ELSE [ok |-> TRUE, event |-> parsed]

\* event.type
EventType(ev) == IF "object" \in DOMAIN ev THEN Str(ev.object.type) ELSE Undefined

HandlesEventMutant(ev) == TRUE

\* fulfils a session id once: a notification for a session another request
\* has already verified is skipped
HandlesEventOnceMutant(ev) ==
    /\ EventType(ev) = Str(CompletedType)
    /\ ~\E p \in DOMAIN req :
          /\ req[p].verified
          /\ req[p].event.object.session.id = ev.object.session.id

\* line 123
HandlesEvent(ev) == EventType(ev) = Str(CompletedType)

VerificationFailureResponseMutant(message) == Respond(200, [received |-> TRUE])

\* line 119
VerificationFailureResponse(message) ==
    Respond(400, [text |-> "Webhook Error: ", message |-> message])

\* the 400 of Express' error handler for a body express.json cannot parse
BodyParserErrorResponse == Respond(400, [text |-> "Bad Request"])

\* line 142
ReceivedResponse == Respond(200, [received |-> TRUE])

(***************************************************************************)
(* createOutlookEvent and sendConfirmationEmail                            *)
(***************************************************************************)
\* lines 172-173: split is called on appointmentDate and appointmentTime
OutlookEventThrows(metadata) ==
    \/ ~("str" \in DOMAIN metadata.appointmentDate)
    \/ ~("str" \in DOMAIN metadata.appointmentTime)

(***************************************************************************)
(* Dates.  A Date is an instant, counted here in minutes since             *)
(* 1970-01-01T00:00Z (the code counts milliseconds).  Civil dates are      *)
(* converted to day numbers and back as the proleptic Gregorian calendar   *)
(* does.                                                                   *)
(***************************************************************************)
DaysFromCivil(y, m, d) ==
    LET yy == IF m <= 2 THEN y - 1 ELSE y
        era == yy \div 400
        yoe == yy - era * 400
        mp == (m + 9) % 12
        doy == (153 * mp + 2) \div 5 + d - 1
        doe == yoe * 365 + yoe \div 4 - yoe \div 100 + doy
    IN  era * 146097 + doe - 719468

CivilFromDays(z) ==
    LET zz == z + 719468
        era == zz \div 146097
        doe == zz - era * 146097
        yoe == (doe - doe \div 1460 + doe \div 36524 - doe \div 146096) \div 365
        doy == doe - (365 * yoe + yoe \div 4 - yoe \div 100)
        mp == (5 * doy + 2) \div 153
        d == doy - (153 * mp + 2) \div 5 + 1
        m == IF mp < 10 THEN mp + 3 ELSE mp - 9
        y == yoe + era * 400
    IN  <<IF m <= 2 THEN y + 1 ELSE y, m, d>>

\* minutes of the wall-clock reading <<year, month, day, hours, minutes>>
MinutesOf(f) == DaysFromCivil(f[1], f[2], f[3]) * 1440 + f[4] * 60 + f[5]

\* the wall-clock reading of a number of minutes
FieldsOf(t) ==
    LET c == CivilFromDays(t \div 1440)
    IN  <<c[1], c[2], c[3], (t % 1440) \div 60, t % 60>>

\* the time zones the server process may run in
ServerZones == {"UTC", "America/New_York", "Europe/Berlin"}

\* minutes east of UTC of a zone on a day of 2025 (daylight saving time
\* from March 9 to November 2 in New York, from March 30 to October 26 in
\* Berlin; the hour of the change is not modelled)
ZoneOffset(z, day) ==
    IF z = "America/New_York"
    THEN IF DaysFromCivil(2025, 3, 9) <= day /\ day < DaysFromCivil(2025, 11, 2)
         THEN -240 ELSE -300
    ELSE IF z = "Europe/Berlin"
    THEN IF DaysFromCivil(2025, 3, 30) <= day /\ day < DaysFromCivil(2025, 10, 26)
         THEN 120 ELSE 60
    ELSE 0

\* lines 172-173: 'YYYY-MM-DD'.split('-') and 'HH:MM'.split(':'), the parts
\* read as numbers
SplitDate(s) == ("2025-03-10" :> <<2025, 3, 10>>)[s]

SplitTime(s) == ("14:00" :> <<14, 0>>)[s]

\* line 175: new Date(year, monthIndex, day, hours, minutes) reads its
\* arguments as local time of the server's zone
NewDate(year, monthIndex, day, hours, minutes) ==
    LET local == MinutesOf(<<year, monthIndex + 1, day, hours, minutes>>)
    IN  local - ZoneOffset(zone, local \div 1440)

\* lines 197, 201: toISOString() writes the UTC reading of the instant,
\* followed by Z
ToISOString(t) == [fields |-> FieldsOf(t), suffix |-> "Z"]

\* line 175
StartDateTime(metadata) ==
    LET date == SplitDate(metadata.appointmentDate.str)
        time == SplitTime(metadata.appointmentTime.str)
    IN  NewDate(date[1], date[2] - 1, date[3], time[1], time[2])

\* line 176: one hour later
EndDateTime(metadata) == StartDateTime(metadata) + 60

\* lines 178-218, the fields of the event the claims are about
OutlookEvent(metadata) ==
    [subject |-> <<"Client Appointment: ", metadata.customerName,
                   " - ", metadata.service>>,
     start |-> [dateTime |-> ToISOString(StartDateTime(metadata)),
                timeZone |-> "America/New_York"],
     end |-> [dateTime |-> ToISOString(EndDateTime(metadata)),
              timeZone |-> "America/New_York"],
     attendees |-> <<[address |-> metadata.customerEmail,
                      name |-> metadata.customerName,
                      type |-> "required"]>>,
     isOnlineMeeting |-> TRUE,
     onlineMeetingProvider |-> "teamsForBusiness"]

\* lines 239-302
ConfirmationEmail(metadata) ==
    [subject |-> "Appointment Confirmed - Bright Byte Solution",
     toRecipients |-> <<[address |-> metadata.customerEmail,
                         name |-> metadata.customerName]>>]

MaxDeliveries == 2

Reqs == 1 .. MaxDeliveries

NoRequest == [contentType |-> "", body |-> OtherText,
              sig |-> [secret |-> "", signed |-> OtherText]]

NoPayload == [notCalled |-> TRUE]

\* log lists the steps of a request in the order they happen: "verified"
\* (line 116 returned), "calendarStart" and "calendarEnd" (line 130 called,
\* settled), "emailStart" and "emailEnd" (line 133 called, settled), "ack"
\* (a response was sent)
ReqIdle ==
    [pc |-> "idle", request |-> NoRequest,
     payload |-> NoPayload, verifyCalls |-> 0, verified |-> FALSE,
     event |-> SyntaxError,
     calendarCalls |-> 0, calendarPosts |-> <<>>, calendarResult |-> "none",
     emailCalls |-> 0, emailPosts |-> <<>>, emailResult |-> "none",
     response |-> NoResponse, log |-> <<>>]

StartEmailMutant(s, metadata) ==
    [s EXCEPT !.pc = "done",
              !.emailCalls = @ + 1,
              !.emailPosts = Append(@, ConfirmationEmail(metadata)),
              !.emailResult = "pending",
              !.response = ReceivedResponse,
              !.log = @ \o <<"emailStart", "ack">>]

\* lines 133, 234-307: sendConfirmationEmail runs up to its await
StartEmail(s, metadata) ==
    [s EXCEPT !.pc = "awaitEmail",
              !.emailCalls = @ + 1,
              !.emailPosts = Append(@, ConfirmationEmail(metadata)),
              !.emailResult = "pending",
              !.log = Append(@, "emailStart")]

CatchAndAcknowledgeMutant(s) ==
    [s EXCEPT !.pc = "done",
              !.response = Respond(500, [error |-> "Fulfillment failed"]),
              !.log = Append(@, "ack")]

\* lines 136-142: the catch block, then the acknowledgment
CatchAndAcknowledge(s) ==
    [s EXCEPT !.pc = "done", !.response = ReceivedResponse,
              !.log = Append(@, "ack")]

\* lines 107-130, 166-223: the middleware chain and the handler from the
\* request to its first await
WebhookHandler(r, q) ==
    /\ req[r].pc = "idle"
    /\ \A p \in Reqs : p < r => req[p].pc # "idle"
    /\ LET ctx == Middleware(q)
           result == ConstructEvent(ctx.body, q.sig, WebhookSecret)
           received == [req[r] EXCEPT !.request = q]
           called == [received EXCEPT !.payload = ctx.body,
                                      !.verifyCalls = @ + 1]
           verified == [called EXCEPT !.verified = TRUE,
                                      !.event = result.event,
                                      !.log = Append(@, "verified")]
           metadata == result.event.object.session.metadata
           invoked == [verified EXCEPT !.calendarCalls = @ + 1,
                                       !.log = Append(@, "calendarStart")]
       IN  req' = [req EXCEPT ![r] =
             IF ctx.error
             THEN [received EXCEPT !.pc = "done",
                                   !.response = BodyParserErrorResponse,
                                   !.log = Append(@, "ack")]
             ELSE IF ~result.ok
             THEN [called EXCEPT
                      !.pc = "done",
                      !.response = VerificationFailureResponse(result.message),
                      !.log = Append(@, "ack")]
             ELSE IF ~HandlesEvent(result.event)
             THEN [verified EXCEPT !.pc = "done",
                                   !.response = ReceivedResponse,
                                   !.log = Append(@, "ack")]
             ELSE IF OutlookEventThrows(metadata)
             THEN CatchAndAcknowledge(
                      [invoked EXCEPT !.calendarResult = "failed",
                                      !.log = Append(@, "calendarEnd")])
             ELSE [invoked EXCEPT
                      !.pc = "awaitCalendar",
                      !.calendarPosts = Append(@, OutlookEvent(metadata)),
                      !.calendarResult = "pending"]]
    /\ UNCHANGED <<co, zone>>

\* lines 221-226 resolve, then lines 133 and 234-307
CalendarCreated(r) ==
    /\ req[r].pc = "awaitCalendar"
    /\ req' = [req EXCEPT ![r] =
          StartEmail([@ EXCEPT !.calendarResult = "created",
                               !.log = Append(@, "calendarEnd")],
                     @.event.object.session.metadata)]
    /\ UNCHANGED <<co, zone>>

\* lines 221-230 reject, the error reaches the catch of line 136
CalendarFailed(r) ==
    /\ req[r].pc = "awaitCalendar"
    /\ req' = [req EXCEPT ![r] =
          CatchAndAcknowledge([@ EXCEPT !.calendarResult = "failed",
                                        !.log = Append(@, "calendarEnd")])]
    /\ UNCHANGED <<co, zone>>

\* lines 305-309 resolve, then lines 135 and 142
EmailSent(r) ==
    /\ req[r].pc = "awaitEmail"
    /\ req' = [req EXCEPT ![r] =
          [@ EXCEPT !.pc = "done", !.emailResult = "sent",
                    !.response = ReceivedResponse,
                    !.log = @ \o <<"emailEnd", "ack">>]]
    /\ UNCHANGED <<co, zone>>

\* lines 305-313 reject, the error reaches the catch of line 136
EmailFailed(r) ==
    /\ req[r].pc = "awaitEmail"
    /\ req' = [req EXCEPT ![r] =
          CatchAndAcknowledge([@ EXCEPT !.emailResult = "failed",
                                        !.log = Append(@, "emailEnd")])]
    /\ UNCHANGED <<co, zone>>

(***************************************************************************)
(* Specifications                                                          *)
(***************************************************************************)
Init ==
    /\ co = CoIdle
    /\ req = [r \in Reqs |-> ReqIdle]
    /\ zone \in ServerZones

NextCheckout ==
    \/ \E b \in BookingRequests : CreateCheckoutSession(b)
    \/ StripeSessionCreated
    \/ StripeSessionFailed

SpecCheckout == Init /\ [][NextCheckout]_vars

NextWebhook ==
    \/ \E r \in Reqs, q \in WebhookRequests : WebhookHandler(r, q)
    \/ \E r \in Reqs : CalendarCreated(r)
    \/ \E r \in Reqs : CalendarFailed(r)
    \/ \E r \in Reqs : EmailSent(r)
    \/ \E r \in Reqs : EmailFailed(r)

SpecWebhook == Init /\ [][NextWebhook]_vars

(***************************************************************************)
(* Properties of POST /api/create-checkout-session (SpecCheckout)          *)
(***************************************************************************)
RequiredFields == {"name", "email", "phone", "service", "date", "time"}

PricedServices == {"consultation", "starter", "professional"}

TableServices == PricedServices \cup {"enterprise"}

\* the handler has taken the request co.body
CoReceived == co.pc # "idle"

AllRequiredGiven == \A f \in RequiredFields : Truthy(co.body[f])

Placeholder == Str("No details provided")

\* C5: a request in which a required field is absent is answered 400
\* 'Missing required fields' and the processor is not called; a request
\* whose required fields are all given is not answered with that failure
\* when only message is absent.
C5_MissingFieldRejected ==
    /\ (CoReceived /\ \E f \in RequiredFields : co.body[f] = Undefined)
          => /\ co.pc = "done"
             /\ co.response =
                  [status |-> 400, body |-> [error |-> "Missing required fields"]]
             /\ co.stripeCalls = <<>>
    /\ (CoReceived /\ AllRequiredGiven /\ co.body.message = Undefined)
          => co.response.body # [error |-> "Missing required fields"]

\* only time is absent and the request has been rejected
C5_Witness ==
    /\ co.pc = "done"
    /\ co.body.time = Undefined
    /\ \A f \in RequiredFields \ {"time"} : Truthy(co.body[f])
    /\ co.response.status = 400

\* C6: service = enterprise with all required fields is answered 400 with
\* the custom-quote message, the processor is never called, and no session
\* with unit_amount 0 is ever requested.
C6_EnterpriseRejected ==
    /\ (CoReceived /\ AllRequiredGiven /\ co.body.service = Str("enterprise"))
          => /\ co.pc = "done"
             /\ co.response.status = 400
             /\ co.response.body = [error |->
                  "Enterprise packages require custom quote. Please contact us directly."]
             /\ co.stripeCalls = <<>>
    /\ \A i \in 1 .. Len(co.stripeCalls) : co.stripeCalls[i].unit_amount # Num(0)

C6_Witness ==
    /\ co.pc = "done"
    /\ AllRequiredGiven
    /\ co.body.service = Str("enterprise")
    /\ co.response.status = 400

\* C7: a request with all required fields whose service is not a key of the
\* pricing table is answered 400 'Invalid service selected' and the
\* processor is never called.
C7_UnknownServiceRejected ==
    (CoReceived /\ AllRequiredGiven /\ co.body.service.str \notin TableServices)
        => /\ co.response =
                [status |-> 400, body |-> [error |-> "Invalid service selected"]]
           /\ co.stripeCalls = <<>>

PriceOf(service) ==
    CASE service = "consultation" -> 15000
      [] service = "starter" -> 150000
      [] service = "professional" -> 350000

\* the session the claim expects for co.body, given the value of
\* projectDetails
ExpectedSession(details) ==
    /\ Len(co.stripeCalls) = 1
    /\ co.stripeCalls[1].quantity = 1
    /\ co.stripeCalls[1].unit_amount = Num(PriceOf(co.body.service.str))
    /\ co.stripeCalls[1].customer_email = co.body.email
    /\ co.stripeCalls[1].metadata =
         [customerName |-> co.body.name,
          customerEmail |-> co.body.email,
          customerPhone |-> co.body.phone,
          service |-> co.body.service,
          appointmentDate |-> co.body.date,
          appointmentTime |-> co.body.time,
          projectDetails |-> details]

PricedRequest ==
    CoReceived /\ AllRequiredGiven /\ co.body.service.str \in PricedServices

\* C8 as stated: for a valid request with a priced service exactly one
\* session is requested, with quantity 1, the table's unit_amount, the
\* submitted email and the submitted fields as metadata, projectDetails
\* being the submitted message, or the placeholder when message is absent.
C8_SessionAsSubmitted ==
    PricedRequest =>
        ExpectedSession(IF co.body.message = Undefined
                        THEN Placeholder ELSE co.body.message)

\* C8 amended: the same, projectDetails being the placeholder when message
\* is absent or empty, and the submitted message otherwise.
C8_SessionAsSubmittedOrPlaceholder ==
    PricedRequest =>
        ExpectedSession(IF co.body.message \in {Undefined, Str("")}
                        THEN Placeholder ELSE co.body.message)

\* a starter session has been requested for a request without message
C8_Witness ==
    /\ CoReceived
    /\ co.body.service = Str("starter")
    /\ co.body.message = Undefined
    /\ Len(co.stripeCalls) = 1
    /\ co.stripeCalls[1].unit_amount = Num(150000)

\* C10: when stripe.checkout.sessions.create throws, the client receives
\* 500 with the generic error body, which is not the upstream message, and
\* the processor has been called once; it is never called twice.
C10_ProcessorFailureGeneric ==
    /\ co.stripeError # ""
          => /\ co.response.status = 500
             /\ co.response.body = [error |-> "Failed to create checkout session"]
             /\ co.response.body.error # co.stripeError
             /\ Len(co.stripeCalls) = 1
    /\ Len(co.stripeCalls) <= 1

C10_Witness ==
    /\ co.pc = "done"
    /\ co.stripeError = "Rate limit exceeded"
    /\ co.response.status = 500

(***************************************************************************)
(* Properties of POST /api/webhook (SpecWebhook)                           *)
(***************************************************************************)
Acknowledgment == [status |-> 200, body |-> [received |-> TRUE]]

\* the verified notification of r is of type checkout.session.completed
Completed(r) ==
    /\ req[r].verified
    /\ "object" \in DOMAIN req[r].event
    /\ req[r].event.object.type = "checkout.session.completed"

\* C1: for a verified checkout.session.completed notification whose
\* calendar event was posted to Graph and rejected, the confirmation email
\* is attempted before the request is answered.
C1_EmailAttemptedAfterCalendarFailure ==
    \A r \in Reqs :
        (/\ req[r].pc = "done"
         /\ Completed(r)
         /\ Len(req[r].calendarPosts) = 1
         /\ req[r].calendarResult = "failed")
            => req[r].emailCalls >= 1

\* C2: once verification has succeeded the only response is 200
\* {received: true}, whatever the outcome of the calendar and email calls.
C2_VerifiedAlwaysAcknowledged ==
    \A r \in Reqs :
        req[r].verified =>
            /\ req[r].response \in {NoResponse, Acknowledgment}
            /\ req[r].pc = "done" => req[r].response = Acknowledgment

\* a verified notification whose calendar call failed has been answered
C2_Witness ==
    \E r \in Reqs :
        /\ req[r].pc = "done"
        /\ req[r].verified
        /\ Len(req[r].calendarPosts) = 1
        /\ req[r].calendarResult = "failed"
        /\ req[r].response.status = 200

\* verification of r's request was attempted and failed
VerificationFailed(r) == req[r].verifyCalls >= 1 /\ ~req[r].verified

\* C3: a request whose signature verification failed is answered 400,
\* verification was attempted exactly once, and no calendar event is
\* created and no email is sent for it.
C3_VerificationFailureRejected ==
    \A r \in Reqs :
        VerificationFailed(r) =>
            /\ req[r].pc = "done"
            /\ req[r].response.status = 400
            /\ req[r].verifyCalls = 1
            /\ req[r].calendarCalls = 0 /\ req[r].calendarPosts = <<>>
            /\ req[r].emailCalls = 0 /\ req[r].emailPosts = <<>>

\* a request signed with a wrong secret has been rejected
C3_Witness ==
    \E r \in Reqs :
        /\ VerificationFailed(r)
        /\ req[r].request.sig.secret = "whsec_wrong"
        /\ req[r].request.sig.signed = StringOf(req[r].payload)
        /\ req[r].response.status = 400

\* the sender signed, with the endpoint's secret, the bytes of an
\* application/json notification that arrived unaltered
CorrectlySigned(q) ==
    /\ q.contentType = "application/json"
    /\ q.body.text = "object"
    /\ q.sig.secret = WebhookSecret
    /\ q.sig.signed = q.body

\* C4: constructEvent receives the raw bytes of the request, so a correctly
\* signed application/json notification verifies.
C4_RawBodyVerified ==
    \A r \in Reqs :
        (req[r].pc # "idle" /\ CorrectlySigned(req[r].request))
            => /\ req[r].payload = [buffer |-> req[r].request.body]
               /\ req[r].verified

\* C9: a verified notification of another type is answered 200
\* {received: true} without calendar or email call; calendar and email
\* calls happen only for verified checkout.session.completed notifications.
C9_OtherTypesNoSideEffects ==
    \A r \in Reqs :
        /\ (req[r].verified /\ ~Completed(r))
              => /\ req[r].pc = "done"
                 /\ req[r].response = Acknowledgment
                 /\ req[r].calendarCalls = 0 /\ req[r].calendarPosts = <<>>
                 /\ req[r].emailCalls = 0 /\ req[r].emailPosts = <<>>
        /\ (req[r].calendarCalls > 0 \/ req[r].emailCalls > 0
                \/ req[r].calendarPosts # <<>> \/ req[r].emailPosts # <<>>)
              => Completed(r)

C9_Witness ==
    \E r \in Reqs :
        /\ req[r].verified
        /\ req[r].event.object.type = "payment_intent.created"
        /\ req[r].event.object.session.metadata.customerEmail = Str("jane@x.com")
        /\ req[r].response.status = 200

IsPrefix(s, t) == Len(s) <= Len(t) /\ SubSeq(t, 1, Len(s)) = s

FullFulfillment ==
    <<"verified", "calendarStart", "calendarEnd",
      "emailStart", "emailEnd", "ack">>

CalendarOnlyFulfillment ==
    <<"verified", "calendarStart", "calendarEnd", "ack">>

\* C11: for a verified checkout.session.completed notification the steps
\* happen in the order verified, calendar call started and settled, email
\* call (if any) started and settled, acknowledgment; the email call never
\* starts before the calendar call has settled and the acknowledgment is
\* never sent while one of the two calls is pending.
C11_FulfillmentOrder ==
    \A r \in Reqs :
        Completed(r) =>
            /\ \/ IsPrefix(req[r].log, FullFulfillment)
               \/ IsPrefix(req[r].log, CalendarOnlyFulfillment)
            /\ req[r].pc = "done" =>
                  req[r].log \in {FullFulfillment, CalendarOnlyFulfillment}
            /\ req[r].emailCalls > 0 => req[r].calendarResult = "created"
            /\ req[r].response # NoResponse =>
                  /\ req[r].calendarResult \in {"created", "failed"}
                  /\ req[r].emailResult # "pending"

\* a notification went through every step while another request was
\* between its calendar call and its acknowledgment
C11_Witness ==
    \E r, p \in Reqs :
        /\ Completed(r)
        /\ req[r].log = FullFulfillment
        /\ req[p].pc \in {"awaitCalendar", "awaitEmail"}

SessionIds == {s.id : s \in Sessions}

\* the deliveries of verified checkout.session.completed notifications for
\* session sid
DeliveriesOf(sid) ==
    {r \in Reqs : Completed(r) /\ req[r].event.object.session.id = sid}

RECURSIVE SumOf(_, _)
SumOf(f, S) ==
    IF S = {} THEN 0
    ELSE LET x == CHOOSE y \in S : TRUE
         IN  f[x] + SumOf(f, S \ {x})

\* C12: when the notification of one session id has been delivered n times,
\* calendar-event creation has been attempted n times, no delivery was
\* skipped, and when every external call of these deliveries succeeded, n
\* calendar events and n emails were posted.
C12_NoDeduplication ==
    \A sid \in SessionIds :
        LET D == DeliveriesOf(sid)
            n == Cardinality(D)
        IN  /\ SumOf([r \in Reqs |-> req[r].calendarCalls], D) = n
            /\ \A r \in D : req[r].calendarCalls = 1
            /\ (\A r \in D : /\ req[r].calendarResult = "created"
                             /\ req[r].emailResult = "sent")
                  => /\ SumOf([r \in Reqs |-> Len(req[r].calendarPosts)], D) = n
                     /\ SumOf([r \in Reqs |-> Len(req[r].emailPosts)], D) = n

\* the notification of session cs_1 was delivered twice and both deliveries
\* created an event and sent an email
C12_Witness ==
    \E r, p \in Reqs :
        /\ r # p
        /\ {r, p} \subseteq DeliveriesOf("cs_1")
        /\ \A d \in {r, p} : /\ req[d].pc = "done"
                             /\ req[d].calendarResult = "created"
                             /\ req[d].emailResult = "sent"

\* How Graph can read a dateTime that ends in Z next to a timeZone: as the
\* wall-clock time in that zone, the Z ignored, or as the UTC instant.
GraphReadings == {"wallClock", "instant"}

\* the New York wall-clock reading at which a posted dateTimeTimeZone lies
NewYorkFields(dt, reading) ==
    IF reading = "wallClock" THEN dt.dateTime.fields
    ELSE LET t == MinutesOf(dt.dateTime.fields)
         IN  FieldsOf(t + ZoneOffset("America/New_York", t \div 1440))

\* the date and time the customer booked
BookedFields(metadata) ==
    SplitDate(metadata.appointmentDate.str)
        \o SplitTime(metadata.appointmentTime.str)

\* C13: every event posted by createOutlookEvent starts at the booked date
\* and time in America/New_York, in whatever zone the server runs, ends one
\* hour after its start, is an online meeting and has customerEmail as its
\* single required attendee; every confirmation email goes to customerEmail
\* only.
C13_EventAtBookedTime ==
    \A r \in Reqs :
        LET metadata == req[r].event.object.session.metadata
        IN  /\ \A i \in 1 .. Len(req[r].calendarPosts) :
                 LET ev == req[r].calendarPosts[i]
                 IN  /\ ev.start.timeZone = "America/New_York"
                     /\ ev.end.timeZone = "America/New_York"
                     /\ \E reading \in GraphReadings :
                          /\ NewYorkFields(ev.start, reading)
                                = BookedFields(metadata)
                          /\ MinutesOf(NewYorkFields(ev.end, reading))
                                = MinutesOf(NewYorkFields(ev.start, reading)) + 60
                     /\ ev.isOnlineMeeting
                     /\ Len(ev.attendees) = 1
                     /\ ev.attendees[1].address = metadata.customerEmail
                     /\ ev.attendees[1].type = "required"
            /\ \A i \in 1 .. Len(req[r].emailPosts) :
                 /\ Len(req[r].emailPosts[i].toRecipients) = 1
                 /\ req[r].emailPosts[i].toRecipients[1].address
                       = metadata.customerEmail

====
